---- MODULE Spec2Model ----
(***************************************************************************)
(* A model of the interpreter: the lexer (package lexer), the parser       *)
(* (parser/parser.go), the environment (object/environment.go), the       *)
(* evaluator (evaluator/evaluator.go) and the read-parse-evaluate step of  *)
(* the REPL (repl/repl.go).                                                *)
(*                                                                         *)
(* Go strings are sequences of one-character strings.  Go's nil interface  *)
(* value is the record Nil (AST) or NilObj (objects).  A run-time panic    *)
(* (nil dereference, integer division by zero) is an outcome of its own:   *)
(* it is not a value.                                                      *)
(***************************************************************************)
EXTENDS Integers, Sequences, FiniteSets, TLC

VARIABLES
    mode,       \* which component this behaviour exercises: "repl", "eval", "env"
    p,          \* the Parser struct: l, currToken, peekToken, errors
    pc,         \* the control location inside Start / ParseProgram
    program,    \* program.Statements built so far
    stmt,       \* the statement under construction in parseLet/ReturnStatement
    evaluated,  \* the outcome of evaluator.Eval on the parsed program
    heap,       \* the Environment structs allocated so far, by address
    nalloc,     \* number of ReturnValue objects allocated so far
    node,       \* the AST node last handed to Eval
    envOf,      \* the environment it was evaluated in
    result,     \* the outcome of that evaluation
    before,     \* the heap and allocation count when that evaluation began
    nops        \* number of Set calls performed in "env" mode

vars == <<mode, p, pc, program, stmt, evaluated, heap, nalloc, node,
          envOf, result, before, nops>>

replVars == <<p, pc, program, stmt, evaluated>>
evalVars == <<node, envOf, result, before>>
heapVars == <<heap, nalloc>>

(***************************************************************************)
(* Characters                                                              *)
(***************************************************************************)
NUL == "NUL"

LowerCase == {"a","b","c","d","e","f","g","h","i","j","k","l","m",
              "n","o","p","q","r","s","t","u","v","w","x","y","z"}
UpperCase == {"A","B","C","D","E","F","G","H","I","J","K","L","M",
              "N","O","P","Q","R","S","T","U","V","W","X","Y","Z"}

isDigit(ch) == ch \in {"0","1","2","3","4","5","6","7","8","9"}

isLetter(ch) == ch \in LowerCase \/ ch \in UpperCase \/ ch = "_"

\* space, tab, newline, vertical tab (written VT: TLA+ has no escape for it),
\* form feed, carriage return
VT == "VT"
isWhitespace(ch) == ch \in {" ", "\t", "\n", VT, "\f", "\r"}

(***************************************************************************)
(* Tokens.  The token package is not part of the sources at hand: a token  *)
(* type is named by the identifier the other packages use for it           *)
(* (token.ASSIGN is "ASSIGN").                                             *)
(***************************************************************************)
Token(type, literal) == [Type |-> type, Literal |-> literal]

ZeroToken == Token("", <<>>)

LookupIdentifier(ident) ==
    CASE ident = <<"l","e","t">> -> "LET"
      [] ident = <<"r","e","t","u","r","n">> -> "RETURN"
      [] ident = <<"t","r","u","e">> -> "TRUE"
      [] ident = <<"f","a","l","s","e">> -> "FALSE"
      [] ident = <<"i","f">> -> "IF"
      [] ident = <<"e","l","s","e">> -> "ELSE"
      [] ident = <<"f","n">> -> "FUNCTION"
      [] OTHER -> "IDENT"

(***************************************************************************)
(* Lexer.  A Lexer is [input, position, readPosition, ch]; positions are   *)
(* 0-based as in Go.  Beyond the input every read yields NUL and the two   *)
(* positions go on growing by one per read.  They are Go ints: the reads   *)
(* of this model stay far below the point where a 64-bit int would wrap.   *)
(***************************************************************************)
readChar(l) ==
    [l EXCEPT !.ch = IF l.readPosition >= Len(l.input)
                        THEN NUL
                        ELSE l.input[l.readPosition + 1],
              !.position = l.readPosition,
              !.readPosition = l.readPosition + 1]

LexerNew(input) ==
    readChar([input |-> input, position |-> 0, readPosition |-> 0, ch |-> NUL])

RECURSIVE skipWhitespace(_)
skipWhitespace(l) ==
    IF isWhitespace(l.ch) THEN skipWhitespace(readChar(l)) ELSE l

\* the builder's content is carried in acc
RECURSIVE readIdentifierFrom(_, _)
readIdentifierFrom(l, acc) ==
    IF isLetter(l.ch)
        THEN readIdentifierFrom(readChar(l), Append(acc, l.ch))
        ELSE [l |-> l, s |-> acc]

readIdentifier(l) == readIdentifierFrom(l, <<>>)

RECURSIVE readNumberFrom(_, _)
readNumberFrom(l, acc) ==
    IF isDigit(l.ch)
        THEN readNumberFrom(readChar(l), Append(acc, l.ch))
        ELSE [l |-> l, s |-> acc]

readNumber(l) == readNumberFrom(l, <<>>)

newToken(tokenType, ch) ==
    IF ch = NUL THEN Token(tokenType, <<>>) ELSE Token(tokenType, <<ch>>)

SingleCharType(ch) ==
    CASE ch = "=" -> "ASSIGN"
      [] ch = ";" -> "SEMICOLON"
      [] ch = "(" -> "LPAREN"
      [] ch = ")" -> "RPAREN"
      [] ch = "," -> "COMMA"
      [] ch = "+" -> "PLUS"
      [] ch = "-" -> "MINUS"
      [] ch = "!" -> "BANG"
      [] ch = "/" -> "SLASH"
      [] ch = "*" -> "ASTERISK"
      [] ch = "<" -> "LT"
      [] ch = ">" -> "GT"
      [] ch = "{" -> "LBRACE"
      [] ch = "}" -> "RBRACE"
      [] ch = NUL -> "EOF"
      [] OTHER -> "ILLEGAL"

\* returns the token and the lexer after it
NextToken(l0) ==
    LET l == skipWhitespace(l0) IN
    IF SingleCharType(l.ch) # "ILLEGAL"
        THEN [tok |-> newToken(SingleCharType(l.ch), l.ch), l |-> readChar(l)]
    ELSE IF isLetter(l.ch)
        THEN LET r == readIdentifier(l)
             IN  [tok |-> Token(LookupIdentifier(r.s), r.s), l |-> r.l]
    ELSE IF isDigit(l.ch)
        THEN LET r == readNumber(l)
             IN  [tok |-> Token("INT", r.s), l |-> r.l]
    ELSE [tok |-> newToken("ILLEGAL", l.ch), l |-> readChar(l)]

(***************************************************************************)
(* AST nodes (ast/ast.go).  The evaluator also names ast.Boolean,          *)
(* ast.InfixExpression, ast.IfExpression and ast.BlockStatement, with the  *)
(* fields it reads from them.  The field called Value in several structs   *)
(* has a name per Go type here: Value in Identifier (a string), IntValue   *)
(* in IntegerLiteral, BoolValue in Boolean, ValueExpr in LetStatement; in  *)
(* the objects, Value in Integer, Bool in Boolean, Inner in ReturnValue.   *)
(***************************************************************************)
Nil == [kind |-> "nil"]

Identifier(tok, value) == [kind |-> "Identifier", Token |-> tok, Value |-> value]

IntegerLiteral(tok, value) ==
    [kind |-> "IntegerLiteral", Token |-> tok, IntValue |-> value]

PrefixExpression(tok, operator, right) ==
    [kind |-> "PrefixExpression", Token |-> tok, Operator |-> operator,
     Right |-> right]

LetStatement(tok, name, value) ==
    [kind |-> "LetStatement", Token |-> tok, Name |-> name, ValueExpr |-> value]

ReturnStatement(tok, value) ==
    [kind |-> "ReturnStatement", Token |-> tok, ReturnValue |-> value]

ExpressionStatement(tok, expression) ==
    [kind |-> "ExpressionStatement", Token |-> tok, Expression |-> expression]

Program(statements) == [kind |-> "Program", Statements |-> statements]

BlockStatement(tok, statements) ==
    [kind |-> "BlockStatement", Token |-> tok, Statements |-> statements]

Boolean(tok, value) == [kind |-> "Boolean", Token |-> tok, BoolValue |-> value]

InfixExpression(tok, left, operator, right) ==
    [kind |-> "InfixExpression", Token |-> tok, Left |-> left,
     Operator |-> operator, Right |-> right]

IfExpression(tok, condition, consequence, alternative) ==
    [kind |-> "IfExpression", Token |-> tok, Condition |-> condition,
     Consequence |-> consequence, Alternative |-> alternative]

(***************************************************************************)
(* Parser (parser/parser.go).  A Parser is [l, currToken, peekToken,       *)
(* errors]; every function returns the parser it leaves behind together    *)
(* with its result.                                                        *)
(***************************************************************************)
LOWEST == 1
EQUALS == 2
LESSGREATER == 3
SUM == 4
PRODUCT == 5
PREFIX == 6
CALL == 7

nextToken(q) ==
    LET r == NextToken(q.l)
    IN  [q EXCEPT !.currToken = q.peekToken, !.peekToken = r.tok, !.l = r.l]

New(l) ==
    nextToken(nextToken([l |-> l, currToken |-> ZeroToken,
                         peekToken |-> ZeroToken, errors |-> <<>>]))

\* a formatted text is kept as the format string followed by its arguments
Sprintf(format, a) == <<format>> \o a

peekError(q, t) ==
    [q EXCEPT !.errors = Append(q.errors,
        Sprintf("expected next token to be %s, got %s instead",
                <<t, q.peekToken.Type>>))]

currTokenIs(q, t) == q.currToken.Type = t

peekTokenIs(q, t) == q.peekToken.Type = t

\* expectPeek advancing past the token it did not expect
expectPeekAdvancing(q, t) ==
    IF peekTokenIs(q, t)
        THEN [p |-> nextToken(q), ok |-> TRUE]
        ELSE [p |-> nextToken(peekError(q, t)), ok |-> FALSE]

expectPeek(q, t) ==
    IF peekTokenIs(q, t)
        THEN [p |-> nextToken(q), ok |-> TRUE]
        ELSE [p |-> peekError(q, t), ok |-> FALSE]

noPrefixParserFnError(q, t) ==
    [q EXCEPT !.errors = Append(q.errors,
        Sprintf("no prefix parse function for %s found", <<t>>))]

parseIdentifier(q) ==
    [p |-> q, exp |-> Identifier(q.currToken, q.currToken.Literal)]

DigitValue(ch) ==
    CASE ch = "0" -> 0 [] ch = "1" -> 1 [] ch = "2" -> 2 [] ch = "3" -> 3
      [] ch = "4" -> 4 [] ch = "5" -> 5 [] ch = "6" -> 6 [] ch = "7" -> 7
      [] ch = "8" -> 8 [] ch = "9" -> 9

\* the value of the digits s in the given base, on top of acc
RECURSIVE ParseDigits(_, _, _)
ParseDigits(s, base, acc) ==
    IF s = <<>> THEN [ok |-> TRUE, value |-> acc]
    ELSE IF DigitValue(Head(s)) >= base THEN [ok |-> FALSE, value |-> 0]
    ELSE ParseDigits(Tail(s), base, acc * base + DigitValue(Head(s)))

\* strconv.ParseInt(s, 0, 64) on a run of decimal digits: base 0 reads a
\* leading "0" as the octal prefix.  The literals of this model are too
\* short to leave the 64-bit range.
ParseInt(s) ==
    IF s = <<>> THEN [ok |-> FALSE, value |-> 0]
    ELSE IF Head(s) = "0" THEN ParseDigits(Tail(s), 8, 0)
    ELSE ParseDigits(s, 10, 0)

parseIntegerLiteral(q) ==
    LET r == ParseInt(q.currToken.Literal) IN
    IF ~r.ok
        THEN [p |-> [q EXCEPT !.errors = Append(q.errors,
                        Sprintf("could not parse %q as an integer",
                                <<q.currToken.Literal>>))],
              exp |-> Nil]
        ELSE [p |-> q, exp |-> IntegerLiteral(q.currToken, r.value)]

\* the keys of prefixParseFns registered in New
prefixParseFns == {"IDENT", "INT", "BANG", "MINUS"}

\* parseExpression and parsePrefixExpression call each other
RECURSIVE parseExpression(_, _)
parsePrefixExpression(q) ==
    LET r == parseExpression(nextToken(q), PREFIX)
    IN  [p |-> r.p,
         exp |-> PrefixExpression(q.currToken, q.currToken.Literal, r.exp)]

parseExpression(q, precedence) ==
    IF q.currToken.Type \notin prefixParseFns
        THEN [p |-> noPrefixParserFnError(q, q.currToken.Type), exp |-> Nil]
    ELSE CASE q.currToken.Type = "IDENT" -> parseIdentifier(q)
           [] q.currToken.Type = "INT" -> parseIntegerLiteral(q)
           [] OTHER -> parsePrefixExpression(q)

parseExpressionStatement(q) ==
    LET r == parseExpression(q, LOWEST)
        s == ExpressionStatement(q.currToken, r.exp)
    IN  [p |-> IF peekTokenIs(r.p, "SEMICOLON") THEN nextToken(r.p) ELSE r.p,
         stmt |-> s]

(***************************************************************************)
(* Objects.  The object package's value types are not part of the sources  *)
(* at hand; the evaluator shows their fields and type tags.  TRUE, FALSE   *)
(* and NULL are the evaluator's three shared instances.  Two ReturnValue   *)
(* objects are the same object when they come from the same allocation:    *)
(* addr numbers the allocations.  An Integer's identity is never read.     *)
(***************************************************************************)
NilObj == [type |-> "nil"]

Integer(value) == [type |-> "INTEGER", Value |-> value]

NULL == [type |-> "NULL"]

TRUEObj == [type |-> "BOOLEAN", Bool |-> TRUE]

FALSEObj == [type |-> "BOOLEAN", Bool |-> FALSE]

ReturnValue(value, addr) ==
    [type |-> "RETURN_VALUE", Inner |-> value, addr |-> addr]

newError(format, a) == [type |-> "ERROR", Message |-> Sprintf(format, a)]

isError(obj) == IF obj # NilObj THEN obj.type = "ERROR" ELSE FALSE

nativeBoolToBooleanObject(input) == IF input THEN TRUEObj ELSE FALSEObj

(***************************************************************************)
(* Environment (object/environment.go).  The heap is the sequence of the   *)
(* Environment structs allocated so far; an *Environment is an index into  *)
(* it and 0 is the nil pointer.  store is a Go map: a function whose       *)
(* domain is the set of names bound.                                       *)
(***************************************************************************)
EmptyStore == [name \in {} |-> NilObj]

NewEnvironment(h) ==
    [heap |-> Append(h, [store |-> EmptyStore, outer |-> 0]), env |-> Len(h) + 1]

NewEnclosedEnviroment(h, outer) ==
    LET r == NewEnvironment(h)
    IN  [heap |-> [r.heap EXCEPT ![r.env].outer = outer], env |-> r.env]

RECURSIVE Get(_, _, _)
Get(h, e, name) ==
    IF name \in DOMAIN h[e].store
        THEN [obj |-> h[e].store[name], ok |-> TRUE]
    ELSE IF h[e].outer # 0
        THEN Get(h, h[e].outer, name)
    ELSE [obj |-> NilObj, ok |-> FALSE]

\* Set assigning to the enclosing environment when it binds the name
SetAssigningOuter(h, e, name, val) ==
    LET t == IF h[e].outer # 0 /\ name \in DOMAIN h[h[e].outer].store
                THEN h[e].outer ELSE e
    IN  [h EXCEPT ![t].store =
            [k \in DOMAIN h[t].store \cup {name} |->
                IF k = name THEN val ELSE h[t].store[k]]]

\* the heap after e.store[name] = val; Set returns val itself
Set(h, e, name, val) ==
    [h EXCEPT ![e].store =
        [k \in DOMAIN h[e].store \cup {name} |->
            IF k = name THEN val ELSE h[e].store[k]]]

(***************************************************************************)
(* Evaluator (evaluator/evaluator.go).  An evaluation yields an outcome:   *)
(* the object returned, the heap and the allocation count it leaves, and   *)
(* whether it panicked (then no object is returned at all).                *)
(***************************************************************************)
Ret(obj, h, n) == [obj |-> obj, heap |-> h, nalloc |-> n, panic |-> FALSE]

Panic(h, n) == [obj |-> NilObj, heap |-> h, nalloc |-> n, panic |-> TRUE]

\* the operator spellings of the token package
TokPLUS == <<"+">>
TokMINUS == <<"-">>
TokBANG == <<"!">>
TokASTERISK == <<"*">>
TokSLASH == <<"/">>
TokLT == <<"<">>
TokGT == <<">">>
TokEQ == <<"=", "=">>
TokNOT_EQ == <<"!", "=">>

\* Go's integer division truncates toward zero
Quo(a, b) ==
    IF (a >= 0) = (b > 0)
        THEN (IF a >= 0 THEN a ELSE -a) \div (IF b > 0 THEN b ELSE -b)
        ELSE -((IF a >= 0 THEN a ELSE -a) \div (IF b > 0 THEN b ELSE -b))

evalBangOperatorExpression(right) ==
    CASE right = TRUEObj -> FALSEObj
      [] right = FALSEObj -> TRUEObj
      [] right = NULL -> TRUEObj
      [] OTHER -> FALSEObj

\* right.Type() panics on a nil right
evalMinusPrefixOperatorExpression(right, h, n) ==
    IF right = NilObj THEN Panic(h, n)
    ELSE IF right.type # "INTEGER"
        THEN Ret(newError("unknown operator: -%s", <<right.type>>), h, n)
    ELSE Ret(Integer(-right.Value), h, n)

evalPrefixExpression(operator, right, h, n) ==
    CASE operator = TokBANG -> Ret(evalBangOperatorExpression(right), h, n)
      [] operator = TokMINUS -> evalMinusPrefixOperatorExpression(right, h, n)
      [] OTHER ->
            IF right = NilObj THEN Panic(h, n)
            ELSE Ret(newError("unknown operator: %s%s", <<operator, right.type>>),
                     h, n)

\* the values of this model stay far from the 64-bit range, where Go's
\* arithmetic would wrap; an integer division by zero panics
evalInfixIntegerExpression(operator, left, right, h, n) ==
    LET leftValue == left.Value
        rightValue == right.Value
    IN  CASE operator = TokPLUS -> Ret(Integer(leftValue + rightValue), h, n)
          [] operator = TokMINUS -> Ret(Integer(leftValue - rightValue), h, n)
          [] operator = TokASTERISK -> Ret(Integer(leftValue * rightValue), h, n)
          [] operator = TokSLASH ->
                IF rightValue = 0 THEN Panic(h, n)
                ELSE Ret(Integer(Quo(leftValue, rightValue)), h, n)
          [] operator = TokGT ->
                Ret(nativeBoolToBooleanObject(leftValue > rightValue), h, n)
          [] operator = TokLT ->
                Ret(nativeBoolToBooleanObject(leftValue < rightValue), h, n)
          [] operator = TokEQ ->
                Ret(nativeBoolToBooleanObject(leftValue = rightValue), h, n)
          [] operator = TokNOT_EQ ->
                Ret(nativeBoolToBooleanObject(leftValue # rightValue), h, n)
          [] OTHER ->
                Ret(newError("unknown operator: %s %s %s",
                             <<left.type, operator, right.type>>), h, n)

\* left == right on two interface values: the same object
SameObject(left, right) ==
    /\ left.type = right.type
    /\ left.type # "INTEGER"
    /\ left = right

\* evalInfixExpression with the case of differing types ahead of the cases
\* of == and !=
evalInfixExpressionTypesFirst(operator, left, right, h, n) ==
    IF left = NilObj THEN Panic(h, n)
    ELSE IF left.type = "INTEGER" /\ right = NilObj THEN Panic(h, n)
    ELSE IF left.type = "INTEGER" /\ right.type = "INTEGER"
        THEN evalInfixIntegerExpression(operator, left, right, h, n)
    ELSE IF right = NilObj THEN Panic(h, n)
    ELSE IF left.type # right.type
        THEN Ret(newError("type mismatch: %s %s %s",
                          <<left.type, operator, right.type>>), h, n)
    ELSE IF operator = TokEQ
        THEN Ret(nativeBoolToBooleanObject(SameObject(left, right)), h, n)
    ELSE IF operator = TokNOT_EQ
        THEN Ret(nativeBoolToBooleanObject(~SameObject(left, right)), h, n)
    ELSE Ret(newError("unknown operator: %s %s %s",
                      <<left.type, operator, right.type>>), h, n)

\* the switch evaluates left.Type() first, and right.Type() only when the
\* left operand is an Integer or the operator is neither == nor !=
evalInfixExpression(operator, left, right, h, n) ==
    IF left = NilObj THEN Panic(h, n)
    ELSE IF left.type = "INTEGER" /\ right = NilObj THEN Panic(h, n)
    ELSE IF left.type = "INTEGER" /\ right.type = "INTEGER"
        THEN evalInfixIntegerExpression(operator, left, right, h, n)
    ELSE IF operator = TokEQ
        THEN Ret(nativeBoolToBooleanObject(SameObject(left, right)), h, n)
    ELSE IF operator = TokNOT_EQ
        THEN Ret(nativeBoolToBooleanObject(~SameObject(left, right)), h, n)
    ELSE IF right = NilObj THEN Panic(h, n)
    ELSE IF left.type # right.type
        THEN Ret(newError("type mismatch: %s %s %s",
                          <<left.type, operator, right.type>>), h, n)
    ELSE Ret(newError("unknown operator: %s %s %s",
                      <<left.type, operator, right.type>>), h, n)

\* defined on the objects that have a Type(): obj.Type() panics on nil
isTruthy(obj) ==
    CASE obj.type = "BOOLEAN" -> obj = TRUEObj
      [] obj.type = "NULL" -> FALSE
      [] obj.type = "INTEGER" -> obj.Value # 0
      [] OTHER -> TRUE

\* env.Get on a nil *Environment dereferences it: a panic
evalIdentifier(nd, env, h, n) ==
    IF env = 0 THEN Panic(h, n) ELSE
    LET r == Get(h, env, nd.Value)
    IN  IF ~r.ok
            \* the format is "identifier not found: " + node.Value
            THEN Ret(newError("identifier not found: ", <<nd.Value>>), h, n)
            ELSE Ret(r.obj, h, n)

RECURSIVE Eval(_, _, _, _)
RECURSIVE evalProgramFrom(_, _, _, _, _, _)
RECURSIVE evalBlockStatementFrom(_, _, _, _, _, _)

\* evalProgram without its case for *object.Error
RECURSIVE evalProgramFromPastError(_, _, _, _, _, _)
evalProgramFromPastError(statements, i, res, env, h, n) ==
    IF i > Len(statements) THEN Ret(res, h, n)
    ELSE LET r == Eval(statements[i], env, h, n) IN
         IF r.panic THEN r
         ELSE IF r.obj.type = "RETURN_VALUE"
            THEN Ret(r.obj.Inner, r.heap, r.nalloc)
         ELSE evalProgramFromPastError(statements, i + 1, r.obj, env,
                                       r.heap, r.nalloc)

\* the loop of evalProgram from statement i on, result being the last result
evalProgramFrom(statements, i, res, env, h, n) ==
    IF i > Len(statements) THEN Ret(res, h, n)
    ELSE LET r == Eval(statements[i], env, h, n) IN
         IF r.panic THEN r
         ELSE IF r.obj.type = "RETURN_VALUE"
            THEN Ret(r.obj.Inner, r.heap, r.nalloc)
         ELSE IF r.obj.type = "ERROR" THEN r
         ELSE evalProgramFrom(statements, i + 1, r.obj, env, r.heap, r.nalloc)

evalProgram(prog, env, h, n) ==
    evalProgramFrom(prog.Statements, 1, NilObj, env, h, n)

\* evalBlockStatement unwrapping a ReturnValue as evalProgram does
RECURSIVE evalBlockStatementFromUnwrapping(_, _, _, _, _, _)
evalBlockStatementFromUnwrapping(statements, i, res, env, h, n) ==
    IF i > Len(statements) THEN Ret(res, h, n)
    ELSE LET r == Eval(statements[i], env, h, n) IN
         IF r.panic THEN r
         ELSE IF r.obj.type = "RETURN_VALUE"
            THEN Ret(r.obj.Inner, r.heap, r.nalloc)
         ELSE IF r.obj.type = "ERROR" THEN r
         ELSE evalBlockStatementFromUnwrapping(statements, i + 1, r.obj, env,
                                               r.heap, r.nalloc)

\* the loop of evalBlockStatement from statement i on
evalBlockStatementFrom(statements, i, res, env, h, n) ==
    IF i > Len(statements) THEN Ret(res, h, n)
    ELSE LET r == Eval(statements[i], env, h, n) IN
         IF r.panic THEN r
         ELSE IF r.obj # NilObj /\ r.obj.type \in {"RETURN_VALUE", "ERROR"}
            THEN r
         ELSE evalBlockStatementFrom(statements, i + 1, r.obj, env,
                                     r.heap, r.nalloc)

evalBlockStatement(block, env, h, n) ==
    evalBlockStatementFrom(block.Statements, 1, NilObj, env, h, n)

evalIfExpression(nd, env, h, n) ==
    LET c == Eval(nd.Condition, env, h, n) IN
    IF c.panic THEN c
    ELSE IF isError(c.obj) THEN c
    ELSE IF c.obj = NilObj THEN Panic(c.heap, c.nalloc)
    ELSE IF isTruthy(c.obj) THEN Eval(nd.Consequence, env, c.heap, c.nalloc)
    ELSE IF nd.Alternative # Nil THEN Eval(nd.Alternative, env, c.heap, c.nalloc)
    ELSE Ret(NULL, c.heap, c.nalloc)

evalReturnStatement(nd, env, h, n) ==
    LET val == Eval(nd.ReturnValue, env, h, n) IN
    IF val.panic THEN val
    ELSE IF isError(val.obj) THEN val
    ELSE Ret(ReturnValue(val.obj, val.nalloc + 1), val.heap, val.nalloc + 1)

\* the LetStatement case without its isError check
evalLetStatementBindingErrors(nd, env, h, n) ==
    LET val == Eval(nd.ValueExpr, env, h, n) IN
    IF val.panic THEN val
    ELSE IF nd.Name = Nil \/ env = 0 THEN Panic(val.heap, val.nalloc)
    ELSE Ret(NilObj, Set(val.heap, env, nd.Name.Value, val.obj), val.nalloc)

\* the case falls out of the switch: Eval returns nil after env.Set;
\* env.Set on a nil *Environment dereferences it: a panic
evalLetStatement(nd, env, h, n) ==
    LET val == Eval(nd.ValueExpr, env, h, n) IN
    IF val.panic THEN val
    ELSE IF isError(val.obj) THEN val
    ELSE IF nd.Name = Nil \/ env = 0 THEN Panic(val.heap, val.nalloc)
    ELSE Ret(NilObj, Set(val.heap, env, nd.Name.Value, val.obj), val.nalloc)

evalPrefixNode(nd, env, h, n) ==
    LET right == Eval(nd.Right, env, h, n) IN
    IF right.panic THEN right
    ELSE IF isError(right.obj) THEN right
    ELSE evalPrefixExpression(nd.Operator, right.obj, right.heap, right.nalloc)

evalInfixNode(nd, env, h, n) ==
    LET left == Eval(nd.Left, env, h, n) IN
    IF left.panic THEN left
    ELSE IF isError(left.obj) THEN left
    ELSE LET right == Eval(nd.Right, env, left.heap, left.nalloc) IN
         IF right.panic THEN right
         ELSE IF isError(right.obj) THEN right
         ELSE evalInfixExpression(nd.Operator, left.obj, right.obj,
                                  right.heap, right.nalloc)

Eval(nd, env, h, n) ==
    CASE nd.kind = "Program" -> evalProgram(nd, env, h, n)
      [] nd.kind = "ExpressionStatement" -> Eval(nd.Expression, env, h, n)
      [] nd.kind = "BlockStatement" -> evalBlockStatement(nd, env, h, n)
      [] nd.kind = "ReturnStatement" -> evalReturnStatement(nd, env, h, n)
      [] nd.kind = "LetStatement" -> evalLetStatement(nd, env, h, n)
      [] nd.kind = "IntegerLiteral" -> Ret(Integer(nd.IntValue), h, n)
      [] nd.kind = "Boolean" ->
            Ret(nativeBoolToBooleanObject(nd.BoolValue), h, n)
      [] nd.kind = "PrefixExpression" -> evalPrefixNode(nd, env, h, n)
      [] nd.kind = "InfixExpression" -> evalInfixNode(nd, env, h, n)
      [] nd.kind = "IfExpression" -> evalIfExpression(nd, env, h, n)
      [] nd.kind = "Identifier" -> evalIdentifier(nd, env, h, n)
      [] OTHER -> Ret(NilObj, h, n)

(***************************************************************************)
(* The REPL's step on one line (repl/repl.go, Start): the line is lexed    *)
(* and parsed, and evaluated when the parser recorded no diagnostic.       *)
(* ParseProgram runs one statement per step; the loops of                  *)
(* parseLetStatement and parseReturnStatement that look for the ";" run    *)
(* one test or one body per step.                                          *)
(***************************************************************************)
MaxLexemes == 4

LxLet == <<"l", "e", "t">>
LxReturn == <<"r", "e", "t", "u", "r", "n">>
LxX == <<"x">>
LxA == <<"a">>
LxB == <<"b">>
LxFoobar == <<"f", "o", "o", "b", "a", "r">>
LxFive == <<"5">>
LxTwo == <<"2">>
LxAssign == <<"=">>
LxSemi == <<";">>
LxMinus == <<"-">>
LxBang == <<"!">>
LxPlus == <<"+">>
LxStar == <<"*">>
SP == <<" ">>

Lexemes == {LxLet, LxReturn, LxX, LxFive, LxAssign, LxSemi, LxMinus, LxBang,
            LxPlus, LxStar}

RECURSIVE Cat(_)
Cat(ss) == IF ss = <<>> THEN <<>> ELSE Head(ss) \o Cat(Tail(ss))

\* the lexemes separated by single spaces
RECURSIVE Join(_)
Join(ss) ==
    IF ss = <<>> THEN <<>>
    ELSE IF Len(ss) = 1 THEN Head(ss)
    ELSE Head(ss) \o SP \o Join(Tail(ss))

\* let x = 5;
InLetX5 == Cat(<<LxLet, SP, LxX, SP, LxAssign, SP, LxFive, LxSemi>>)
\* let x = 5
InLetX5NoSemi == Cat(<<LxLet, SP, LxX, SP, LxAssign, SP, LxFive>>)
\* return 5;
InReturn5 == Cat(<<LxReturn, SP, LxFive, LxSemi>>)
\* 5 + 5 * 2;
InSumProduct == Cat(<<LxFive, SP, LxPlus, SP, LxFive, SP, LxStar, SP, LxTwo,
                      LxSemi>>)
\* -a * b;
InMinusAB == Cat(<<LxMinus, LxA, SP, LxStar, SP, LxB, LxSemi>>)
\* let x 5;
InLetNoAssign == Cat(<<LxLet, SP, LxX, SP, LxFive, LxSemi>>)
\* foobar;
InFoobar == Cat(<<LxFoobar, LxSemi>>)
\* let x = 5; -x;
InLetThenMinus == Cat(<<LxLet, SP, LxX, SP, LxAssign, SP, LxFive, LxSemi, SP,
                        LxMinus, LxX, LxSemi>>)
\* let x = 5; let x 5; x;
InLetBadLetX == Cat(<<InLetX5, SP, InLetNoAssign, SP, LxX, LxSemi>>)

NamedInputs == {InLetX5, InLetX5NoSemi, InReturn5, InSumProduct, InMinusAB,
                InLetNoAssign, InFoobar, InLetThenMinus, InLetBadLetX}

\* a op1 b op2 c;
LxLess == <<"<">>
OperandLexemes == {LxX, LxFive}
OperatorLexemes == {LxPlus, LxStar, LxLess}
InInfix(a, op1, b, op2, c) == Cat(<<a, SP, op1, SP, b, SP, op2, SP, c, LxSemi>>)
InfixInputs ==
    {InInfix(a, op1, b, op2, c) : a \in OperandLexemes, b \in OperandLexemes,
        c \in OperandLexemes, op1 \in OperatorLexemes, op2 \in OperatorLexemes}

\* let <name> = <expr>;  and  return <expr>;
ExprTexts == {LxFive, LxX, Cat(<<LxMinus, LxX>>), Cat(<<LxBang, LxFive>>)}
InLet(name, e) == Cat(<<LxLet, SP, name, SP, LxAssign, SP, e, LxSemi>>)
InReturn(e) == Cat(<<LxReturn, SP, e, LxSemi>>)
LetInputs == {InLet(name, e) : name \in {LxX, LxA}, e \in ExprTexts}
ReturnInputs == {InReturn(e) : e \in ExprTexts}

\* <digits>; for the runs of up to MaxDigits digits
MaxDigits == 3

DigitRuns == UNION {[1..k -> {"0", "1", "8"}] : k \in 1..MaxDigits}

InInteger(ds) == ds \o LxSemi

IntegerInputs == {InInteger(ds) : ds \in DigitRuns}

Inputs ==
    {Join(ss) : ss \in UNION {[1..k -> Lexemes] : k \in 0..MaxLexemes}}
        \cup NamedInputs \cup InfixInputs \cup LetInputs \cup ReturnInputs
        \cup IntegerInputs

\* the heap holding one environment made by NewEnvironment, at address 1
RootHeap == NewEnvironment(<<>>).heap

NoBefore == [heap |-> <<>>, nalloc |-> 0]

ReplInitOn(inputs) ==
    /\ mode = "repl"
    /\ \E input \in inputs : p = New(LexerNew(input))
    /\ pc = "ParseProgram"
    /\ program = <<>>
    /\ stmt = Nil
    /\ evaluated = NilObj
    /\ heap = RootHeap
    /\ nalloc = 0
    /\ node = Nil
    /\ envOf = 0
    /\ result = NilObj
    /\ before = NoBefore
    /\ nops = 0

ReplInit == ReplInitOn(Inputs)

\* how far beyond the end of its input the lexer of a statement loop is
\* followed
MaxPastEnd == 6

\* ParseProgram: the loop ends on EOF and the program is returned
ParseProgramReturn ==
    /\ mode = "repl" /\ pc = "ParseProgram"
    /\ currTokenIs(p, "EOF")
    /\ pc' = "parsed"
    /\ UNCHANGED <<mode, p, program, stmt, evaluated, heap, nalloc, evalVars, nops>>

\* parseStatement on LET: parseLetStatement up to its loop.  When an
\* expectPeek fails it returns nil: ParseProgram appends nothing and
\* advances one token.
ParseLetStatement ==
    /\ mode = "repl" /\ pc = "ParseProgram"
    /\ currTokenIs(p, "LET")
    /\ \E r1 \in {expectPeek(p, "IDENT")} :
       \E r2 \in {expectPeek(r1.p, "ASSIGN")} :
       LET name == Identifier(r1.p.currToken, r1.p.currToken.Literal)
       IN  IF ~r1.ok
               THEN /\ p' = nextToken(r1.p)
                    /\ UNCHANGED <<pc, stmt>>
           ELSE IF ~r2.ok
               THEN /\ p' = nextToken(r2.p)
                    /\ UNCHANGED <<pc, stmt>>
           ELSE /\ p' = r2.p
                /\ stmt' = LetStatement(p.currToken, name, Nil)
                /\ pc' = "letLoop"
    /\ UNCHANGED <<mode, program, evaluated, heap, nalloc, evalVars, nops>>

\* for !p.currTokenIs(token.SEMICOLON): the test.  On ";" the statement is
\* returned, and ParseProgram appends it and advances one token.
LetLoopTest ==
    /\ mode = "repl" /\ pc = "letLoop"
    /\ IF currTokenIs(p, "SEMICOLON")
           THEN /\ program' = Append(program, stmt)
                /\ stmt' = Nil
                /\ p' = nextToken(p)
                /\ pc' = "ParseProgram"
           ELSE /\ pc' = "letBody"
                /\ UNCHANGED <<p, program, stmt>>
    /\ UNCHANGED <<mode, evaluated, heap, nalloc, evalVars, nops>>

\* the loop's body: p.nextToken()
LetLoopBody ==
    /\ mode = "repl" /\ pc = "letBody"
    /\ p.l.readPosition < Len(p.l.input) + MaxPastEnd
    /\ p' = nextToken(p)
    /\ pc' = "letLoop"
    /\ UNCHANGED <<mode, program, stmt, evaluated, heap, nalloc, evalVars, nops>>

\* parseStatement on RETURN: parseReturnStatement up to its loop
ParseReturnStatement ==
    /\ mode = "repl" /\ pc = "ParseProgram"
    /\ currTokenIs(p, "RETURN")
    /\ stmt' = ReturnStatement(p.currToken, Nil)
    /\ p' = nextToken(p)
    /\ pc' = "returnLoop"
    /\ UNCHANGED <<mode, program, evaluated, heap, nalloc, evalVars, nops>>

ReturnLoopTest ==
    /\ mode = "repl" /\ pc = "returnLoop"
    /\ IF currTokenIs(p, "SEMICOLON")
           THEN /\ program' = Append(program, stmt)
                /\ stmt' = Nil
                /\ p' = nextToken(p)
                /\ pc' = "ParseProgram"
           ELSE /\ pc' = "returnBody"
                /\ UNCHANGED <<p, program, stmt>>
    /\ UNCHANGED <<mode, evaluated, heap, nalloc, evalVars, nops>>

ReturnLoopBody ==
    /\ mode = "repl" /\ pc = "returnBody"
    /\ p.l.readPosition < Len(p.l.input) + MaxPastEnd
    /\ p' = nextToken(p)
    /\ pc' = "returnLoop"
    /\ UNCHANGED <<mode, program, stmt, evaluated, heap, nalloc, evalVars, nops>>

\* parseStatement's default: the statement is never nil, so ParseProgram
\* appends it, and advances one token
ParseExpressionStatement ==
    /\ mode = "repl" /\ pc = "ParseProgram"
    /\ ~currTokenIs(p, "EOF") /\ ~currTokenIs(p, "LET")
    /\ ~currTokenIs(p, "RETURN")
    /\ \E r \in {parseExpressionStatement(p)} :
           /\ program' = Append(program, r.stmt)
           /\ p' = nextToken(r.p)
    /\ UNCHANGED <<mode, pc, stmt, evaluated, heap, nalloc, evalVars, nops>>

\* Start: diagnostics are printed and the line is not evaluated
PrintParserErrors ==
    /\ mode = "repl" /\ pc = "parsed"
    /\ Len(p.errors) # 0
    /\ pc' = "printed"
    /\ UNCHANGED <<mode, p, program, stmt, evaluated, heap, nalloc, evalVars, nops>>

\* Start: the program is evaluated.  Start calls evaluator.Eval(program)
\* with no environment, while Eval takes one, and Start declares none: the
\* source does not say which environment the line is evaluated in.  It is
\* either none (the nil pointer 0) or the environment at address 1; envOf
\* records which.
StartEval ==
    /\ mode = "repl" /\ pc = "parsed"
    /\ Len(p.errors) = 0
    /\ \E e \in {0, 1} :
       \E r \in {Eval(Program(program), e, heap, nalloc)} :
           /\ envOf' = e
           /\ evaluated' = r.obj
           /\ heap' = r.heap
           /\ nalloc' = r.nalloc
           /\ pc' = IF r.panic THEN "panicked" ELSE "evaluated"
    /\ UNCHANGED <<mode, p, program, stmt, node, result, before, nops>>

\* the lines a session goes on with
MaxLines == 2

LineInputs == {InLetX5, InLetNoAssign, InFoobar, Cat(<<LxX, LxSemi>>)}

\* Start's loop comes round: the next line is scanned, lexed and parsed.
\* As Start declares no Environment, the source does not say whether the
\* environment at address 1 is the one the last line left or a new one:
\* either may be.  before records the heap the last line left, nops the
\* lines done.
NextLine ==
    /\ mode = "repl" /\ pc \in {"evaluated", "printed"}
    /\ nops + 1 < MaxLines
    /\ \E input \in LineInputs : p' = New(LexerNew(input))
    /\ pc' = "ParseProgram"
    /\ program' = <<>>
    /\ evaluated' = NilObj
    /\ before' = [heap |-> heap, nalloc |-> nalloc]
    /\ \/ UNCHANGED <<heap, nalloc>>
       \/ heap' = RootHeap /\ nalloc' = 0
    /\ envOf' = 0
    /\ nops' = nops + 1
    /\ UNCHANGED <<mode, stmt, node, result>>

\* scanner.Scan() finds no further line: Start returns
EndOfInput ==
    /\ mode = "repl" /\ pc \in {"evaluated", "printed"}
    /\ pc' = "ended"
    /\ UNCHANGED <<mode, p, program, stmt, evaluated, heap, nalloc, evalVars, nops>>

ReplNext ==
    \/ NextLine
    \/ EndOfInput
    \/ ParseProgramReturn
    \/ ParseLetStatement
    \/ LetLoopTest
    \/ LetLoopBody
    \/ ParseReturnStatement
    \/ ReturnLoopTest
    \/ ReturnLoopBody
    \/ ParseExpressionStatement
    \/ PrintParserErrors
    \/ StartEval

ReplSpec == ReplInit /\ [][ReplNext]_vars

(***************************************************************************)
(* The evaluator on its own: Eval is applied to a node of the AST variant  *)
(* set, in a root environment or in one enclosed in it, each with or       *)
(* without bindings of the names the node uses.                            *)
(***************************************************************************)
MaxStmts == 3
MaxDepth == 3

NameX == <<"x">>
NameY == <<"y">>

DigitChar(v) ==
    CASE v = 0 -> "0" [] v = 1 -> "1" [] v = 2 -> "2" [] v = 3 -> "3"
      [] v = 4 -> "4" [] v = 5 -> "5" [] v = 6 -> "6" [] v = 7 -> "7"
      [] v = 8 -> "8" [] v = 9 -> "9"

\* nodes as a parser for the whole language builds them
mkInt(v) == IntegerLiteral(Token("INT", <<DigitChar(v)>>), v)

mkBool(b) ==
    IF b THEN Boolean(Token("TRUE", <<"t", "r", "u", "e">>), TRUE)
         ELSE Boolean(Token("FALSE", <<"f", "a", "l", "s", "e">>), FALSE)

mkIdent(name) == Identifier(Token("IDENT", name), name)

OperatorType(op) ==
    CASE op = TokPLUS -> "PLUS" [] op = TokMINUS -> "MINUS"
      [] op = TokBANG -> "BANG" [] op = TokASTERISK -> "ASTERISK"
      [] op = TokSLASH -> "SLASH" [] op = TokLT -> "LT" [] op = TokGT -> "GT"
      [] op = TokEQ -> "EQ" [] op = TokNOT_EQ -> "NOT_EQ"

mkPrefix(op, right) == PrefixExpression(Token(OperatorType(op), op), op, right)

mkInfix(left, op, right) ==
    InfixExpression(Token(OperatorType(op), op), left, op, right)

mkBlock(statements) == BlockStatement(Token("LBRACE", <<"{">>), statements)

mkIf(condition, consequence, alternative) ==
    IfExpression(Token("IF", <<"i", "f">>), condition, consequence, alternative)

mkExprStmt(e) == ExpressionStatement(e.Token, e)

mkLet(name, e) == LetStatement(Token("LET", LxLet), mkIdent(name), e)

mkReturn(e) == ReturnStatement(Token("RETURN", LxReturn), e)

Atoms == {mkInt(0), mkInt(1), mkInt(2), mkBool(TRUE), mkBool(FALSE),
          mkIdent(NameX), mkIdent(NameY)}

PrefixExprs == {mkPrefix(op, a) : op \in {TokBANG, TokMINUS}, a \in Atoms}

InfixOperators == {TokPLUS, TokMINUS, TokASTERISK, TokSLASH, TokLT, TokGT,
                   TokEQ, TokNOT_EQ}

\* the if expression yields a ReturnValue, a new object at each evaluation
InfixOperands == {mkInt(0), mkInt(2), mkBool(TRUE), mkIdent(NameX),
                  mkIf(mkBool(TRUE), mkBlock(<<mkReturn(mkInt(1))>>), Nil)}

InfixExprs ==
    {mkInfix(a, op, b) : a \in InfixOperands, op \in InfixOperators,
        b \in InfixOperands}

\* statements of the blocks of the if expressions
BlockStmts == {mkReturn(mkInt(1)), mkExprStmt(mkInt(1)),
               mkExprStmt(mkIdent(NameY)), mkLet(NameY, mkInt(1))}

IfExprs ==
    {mkIf(c, mkBlock(<<s>>), alt) :
        c \in {mkBool(TRUE), mkBool(FALSE), mkInt(0), mkInt(1), mkIdent(NameX),
               mkIdent(NameY)},
        s \in BlockStmts,
        alt \in {Nil, mkBlock(<<mkExprStmt(mkInt(2))>>)}}

Exprs == Atoms \cup PrefixExprs \cup InfixExprs \cup IfExprs

\* a let or a return may have no value expression: the parser leaves it nil
LetExprs == {Nil, mkInt(1), mkIdent(NameX), mkIdent(NameY),
             mkPrefix(TokMINUS, mkIdent(NameX)),
             mkInfix(mkInt(2), TokSLASH, mkInt(0)),
             mkInfix(mkInt(2), TokPLUS, mkBool(TRUE)),
             mkIf(mkBool(TRUE), mkBlock(<<mkReturn(mkInt(1))>>), Nil),
             mkIf(mkIdent(NameX), mkBlock(<<mkExprStmt(mkIdent(NameY))>>), Nil)}

ReturnExprs == {Nil} \cup Atoms \cup IfExprs

Stmts ==
    {mkExprStmt(e) : e \in Exprs}
        \cup {mkLet(name, e) : name \in {NameX, NameY}, e \in LetExprs}
        \cup {mkReturn(e) : e \in ReturnExprs}

\* statements of the longer statement lists
SeqStmts == {mkLet(NameX, mkInt(1)), mkLet(NameY, mkIdent(NameX)),
             mkReturn(mkIdent(NameX)), mkExprStmt(mkIdent(NameY)),
             mkExprStmt(mkInfix(mkInt(2), TokSLASH, mkInt(0))),
             mkExprStmt(mkIf(mkIdent(NameX), mkBlock(<<mkReturn(mkInt(1))>>),
                             Nil))}

LongLists == UNION {[1..k -> SeqStmts] : k \in 2..MaxStmts}

StmtLists == {<<>>} \cup {<<s>> : s \in Stmts} \cup LongLists

\* return e inside d nested if blocks, each if being a statement of the
\* enclosing block and followed there by the statement post
RECURSIVE NestStmt(_, _, _, _)
NestStmt(d, c, e, post) ==
    IF d = 0 THEN mkReturn(e)
    ELSE mkExprStmt(mkIf(c, mkBlock(<<NestStmt(d - 1, c, e, post), post>>), Nil))

NestConds == {mkBool(TRUE), mkInt(1)}

NestOperands == {mkInt(1), mkIdent(NameX), mkIdent(NameY),
                 mkPrefix(TokMINUS, mkInt(2)),
                 mkIf(mkBool(TRUE), mkBlock(<<mkReturn(mkInt(1))>>), Nil)}

NestPosts == {mkReturn(mkInt(0)), mkLet(NameX, mkInt(2))}

NestLists ==
    {<<NestStmt(d, c, e, post), post>> :
        d \in 1..MaxDepth, c \in NestConds, e \in NestOperands, post \in NestPosts}

LetStmts == {mkLet(name, e) : name \in {NameX, NameY}, e \in LetExprs}

Nodes ==
    {Program(ss) : ss \in StmtLists \cup NestLists}
        \cup {mkBlock(ss) : ss \in LongLists \cup NestLists}
        \cup LetStmts

\* the heap h, or h after Set(name, val) on the environment e
WithOrWithout(hs, e, name, val) == hs \cup {Set(h, e, name, val) : h \in hs}

\* a root environment at address 1 and an environment enclosed in it at
\* address 2, each with or without a binding of x, the root with or
\* without one of y
EvalHeaps ==
    WithOrWithout(
        WithOrWithout(
            WithOrWithout({NewEnclosedEnviroment(RootHeap, 1).heap},
                          1, NameX, Integer(5)),
            1, NameY, TRUEObj),
        2, NameX, Integer(1))

EvalInit ==
    /\ mode = "eval"
    /\ p = New(LexerNew(<<>>))
    /\ pc = "ready"
    /\ program = <<>>
    /\ stmt = Nil
    /\ evaluated = NilObj
    /\ heap \in EvalHeaps
    /\ nalloc = 0
    /\ node = Nil
    /\ envOf = 0
    /\ result = NilObj
    /\ before = NoBefore
    /\ nops = 0

\* Eval(nd, env); a panic ends the process
EvalNode ==
    /\ mode = "eval" /\ pc = "ready"
    /\ \E nd \in Nodes, e \in 1..Len(heap) :
        LET r == Eval(nd, e, heap, nalloc)
        IN  /\ node' = nd
            /\ envOf' = e
            /\ before' = [heap |-> heap, nalloc |-> nalloc]
            /\ result' = r.obj
            /\ heap' = r.heap
            /\ nalloc' = r.nalloc
            /\ pc' = IF r.panic THEN "panicked" ELSE "returned"
    /\ UNCHANGED <<mode, p, program, stmt, evaluated, nops>>

EvalNext == EvalNode

EvalSpec == EvalInit /\ [][EvalNext]_vars

(***************************************************************************)
(* The environment on its own: environments are created, enclosed in one   *)
(* another, written and read.                                              *)
(***************************************************************************)
MaxEnvs == 3
MaxSets == 3

EnvNames == {NameX, NameY}

EnvValues == {Integer(1), TRUEObj}

EnvInit ==
    /\ mode = "env"
    /\ p = New(LexerNew(<<>>))
    /\ pc = "ready"
    /\ program = <<>>
    /\ stmt = Nil
    /\ evaluated = NilObj
    /\ heap = RootHeap
    /\ nalloc = 0
    /\ node = Nil
    /\ envOf = 0
    /\ result = NilObj
    /\ before = NoBefore
    /\ nops = 0

\* node records the call, envOf its receiver, before the heap it found
EnvNewEnvironment ==
    /\ mode = "env"
    /\ Len(heap) < MaxEnvs
    /\ LET r == NewEnvironment(heap)
       IN  /\ heap' = r.heap
           /\ envOf' = r.env
    /\ node' = [kind |-> "NewEnvironment"]
    /\ before' = [heap |-> heap, nalloc |-> nalloc]
    /\ result' = NilObj
    /\ pc' = "made"
    /\ UNCHANGED <<mode, p, program, stmt, evaluated, nalloc, nops>>

EnvNewEnclosedEnviroment ==
    /\ mode = "env"
    /\ Len(heap) < MaxEnvs
    /\ \E outer \in 1..Len(heap) :
        LET r == NewEnclosedEnviroment(heap, outer)
        IN  /\ heap' = r.heap
            /\ envOf' = r.env
            /\ node' = [kind |-> "NewEnclosedEnviroment", outer |-> outer]
    /\ before' = [heap |-> heap, nalloc |-> nalloc]
    /\ result' = NilObj
    /\ pc' = "made"
    /\ UNCHANGED <<mode, p, program, stmt, evaluated, nalloc, nops>>

EnvSet ==
    /\ mode = "env"
    /\ nops < MaxSets
    /\ \E e \in 1..Len(heap), name \in EnvNames, val \in EnvValues :
        /\ heap' = Set(heap, e, name, val)
        /\ envOf' = e
        /\ node' = [kind |-> "Set", name |-> name]
        /\ result' = val
    /\ before' = [heap |-> heap, nalloc |-> nalloc]
    /\ pc' = "set"
    /\ nops' = nops + 1
    /\ UNCHANGED <<mode, p, program, stmt, evaluated, nalloc>>

EnvGet ==
    /\ mode = "env"
    /\ \E e \in 1..Len(heap), name \in EnvNames :
        LET r == Get(heap, e, name)
        IN  /\ envOf' = e
            /\ node' = [kind |-> "Get", name |-> name]
            /\ result' = r.obj
            /\ pc' = IF r.ok THEN "found" ELSE "missing"
    /\ before' = [heap |-> heap, nalloc |-> nalloc]
    /\ UNCHANGED <<mode, p, program, stmt, evaluated, heap, nalloc, nops>>

EnvNext ==
    \/ EnvNewEnvironment
    \/ EnvNewEnclosedEnviroment
    \/ EnvSet
    \/ EnvGet

EnvSpec == EnvInit /\ [][EnvNext]_vars

(***************************************************************************)
(* The three components together                                           *)
(***************************************************************************)
Init == ReplInit \/ EvalInit \/ EnvInit

Next == ReplNext \/ EvalNext \/ EnvNext

Spec == Init /\ [][Next]_vars

(***************************************************************************)
(* Properties of the parser                                                *)
(***************************************************************************)

\* C1: ParseProgram terminates on every input, a let or a return without a
\* ";" before the end of the input included: a statement loop that has
\* reached the end-of-input token ends there and hands its statement back
\* to ParseProgram, which returns the program on that token.
C1_ParseProgramTerminates ==
    [][ (mode = "repl" /\ currTokenIs(p, "EOF")) =>
            /\ pc \in {"letLoop", "returnLoop"} => pc' = "ParseProgram"
            /\ pc = "ParseProgram" => pc' = "parsed" ]_vars

\* C6: Eval is total on every program parsed with zero diagnostics: it
\* completes with a value or an absent result and never fails out-of-band.
C6_EvalTotalOnParsedPrograms ==
    (mode = "repl" /\ Len(p.errors) = 0 /\ envOf # 0) => pc # "panicked"

\* the expression the parser builds from the text e, at LOWEST precedence
ExprOf(e) == parseExpression(New(LexerNew(e)), LOWEST).exp

TokenOf(e) == New(LexerNew(e)).currToken

\* the precedence table of the language
PrecedenceOf(op) ==
    CASE op = LxLess -> LESSGREATER
      [] op = LxPlus -> SUM
      [] op = LxStar -> PRODUCT

InfixOf(left, op, right) == InfixExpression(TokenOf(op), left, op, right)

GroupingOf(a, op1, b, op2, c) ==
    IF PrecedenceOf(op2) > PrecedenceOf(op1)
        THEN InfixOf(ExprOf(a), op1, InfixOf(ExprOf(b), op2, ExprOf(c)))
        ELSE InfixOf(InfixOf(ExprOf(a), op1, ExprOf(b)), op2, ExprOf(c))

\* C9: a op1 b op2 c; parses, with zero diagnostics, as one expression
\* statement grouped (a op1 (b op2 c)) when op2 has the higher precedence and
\* ((a op1 b) op2 c) otherwise, and -a * b; as ((-a) * b).
C9_PrecedenceGrouping ==
    (mode = "repl" /\ pc = "parsed") =>
        /\ \A a \in OperandLexemes, b \in OperandLexemes, c \in OperandLexemes,
              op1 \in OperatorLexemes, op2 \in OperatorLexemes :
                p.l.input = InInfix(a, op1, b, op2, c) =>
                    /\ p.errors = <<>>
                    /\ program = <<ExpressionStatement(TokenOf(a),
                                        GroupingOf(a, op1, b, op2, c))>>
        /\ p.l.input = InMinusAB =>
                /\ p.errors = <<>>
                /\ program = <<ExpressionStatement(TokenOf(LxMinus),
                        InfixOf(ExprOf(Cat(<<LxMinus, LxA>>)), LxStar,
                                ExprOf(LxB)))>>

\* C10: let <name> = <expr>; parses, with zero diagnostics, as exactly one
\* LetStatement whose target is <name> and whose value is the expression
\* parsed from <expr>; return <expr>; as a ReturnStatement carrying it.
C10_LetAndReturnCarryTheirExpression ==
    (mode = "repl" /\ pc = "parsed") =>
        /\ \A name \in {LxX, LxA}, e \in ExprTexts :
                p.l.input = InLet(name, e) =>
                    /\ p.errors = <<>>
                    /\ Len(program) = 1
                    /\ program[1].kind = "LetStatement"
                    /\ program[1].Name.Value = name
                    /\ program[1].ValueExpr = ExprOf(e)
        /\ \A e \in ExprTexts :
                p.l.input = InReturn(e) =>
                    /\ p.errors = <<>>
                    /\ Len(program) = 1
                    /\ program[1].kind = "ReturnStatement"
                    /\ program[1].ReturnValue = ExprOf(e)

(***************************************************************************)
(* Properties of the evaluator.  After EvalNode, node and envOf are the    *)
(* arguments of the call, before the heap it found, result and heap what   *)
(* it left.                                                                *)
(***************************************************************************)

\* the heap and the allocation count that statement i of a list finds when
\* the statements before it are evaluated one after the other
RECURSIVE StateBefore(_, _, _, _, _)
StateBefore(ss, i, env, h, n) ==
    IF i = 1 THEN [heap |-> h, nalloc |-> n]
    ELSE LET s == StateBefore(ss, i - 1, env, h, n)
             r == Eval(ss[i - 1], env, s.heap, s.nalloc)
         IN  [heap |-> r.heap, nalloc |-> r.nalloc]

\* the outcome of statement i of a list
ResultOf(ss, i, env, h, n) ==
    LET s == StateBefore(ss, i, env, h, n)
    IN  Eval(ss[i], env, s.heap, s.nalloc)

IsCarrier(obj) == obj.type \in {"RETURN_VALUE", "ERROR"}

\* statement i is the first whose result is a ReturnValue or an Error
FirstCarrier(ss, i, env, h, n) ==
    /\ ~ResultOf(ss, i, env, h, n).panic
    /\ IsCarrier(ResultOf(ss, i, env, h, n).obj)
    /\ \A j \in 1..(i - 1) :
        /\ ~ResultOf(ss, j, env, h, n).panic
        /\ ~IsCarrier(ResultOf(ss, j, env, h, n).obj)

Called == mode = "eval" /\ pc \in {"returned", "panicked"}

\* C2: evaluating a Program stops at the first statement whose result is a
\* ReturnValue or an Error: the result is the ReturnValue's inner value, or
\* the Error itself, and the heap is the one that statement left, so that
\* no later statement, a let included, has been evaluated.
C2_ProgramStopsAtFirstCarrier ==
    (Called /\ node.kind = "Program") =>
        \A i \in 1..Len(node.Statements) :
            FirstCarrier(node.Statements, i, envOf, before.heap, before.nalloc)
            => LET r == ResultOf(node.Statements, i, envOf, before.heap,
                                 before.nalloc)
               IN  /\ pc = "returned"
                   /\ result = IF r.obj.type = "RETURN_VALUE"
                                    THEN r.obj.Inner ELSE r.obj
                   /\ heap = r.heap
                   /\ nalloc = r.nalloc

\* a let follows the stopping statement s and would have changed the heap
LetSkippedAfter(s, resultType) ==
    /\ Called /\ pc = "returned"
    /\ node = Program(<<s, mkLet(NameX, mkInt(1))>>)
    /\ envOf = 1
    /\ result.type = resultType
    /\ heap = before.heap
    /\ Eval(mkLet(NameX, mkInt(1)), 1, heap, nalloc).heap # heap

\* C2 witness: return x; let x = 1; has yielded the value of x, and
\* y; let x = 1; the Error of the unbound y, the let being skipped
C2_Witness ==
    \/ LetSkippedAfter(mkReturn(mkIdent(NameX)), "INTEGER")
    \/ LetSkippedAfter(mkExprStmt(mkIdent(NameY)), "ERROR")

\* C3: evaluating a BlockStatement stops at the first statement whose
\* result is a ReturnValue or an Error and yields that carrier itself; and
\* return e inside any number of nested if blocks, each followed by another
\* statement, makes the Program yield what e evaluates to, no statement
\* after it in any enclosing block being evaluated.
C3_BlockYieldsCarrierAtEveryDepth ==
    /\ (Called /\ node.kind = "BlockStatement") =>
        \A i \in 1..Len(node.Statements) :
            FirstCarrier(node.Statements, i, envOf, before.heap, before.nalloc)
            => LET r == ResultOf(node.Statements, i, envOf, before.heap,
                                 before.nalloc)
               IN  /\ pc = "returned"
                   /\ result = r.obj
                   /\ heap = r.heap
                   /\ nalloc = r.nalloc
    /\ (Called /\ node.kind = "Program") =>
        \A d \in 1..MaxDepth, c \in NestConds, e \in NestOperands,
           post \in NestPosts :
            node = Program(<<NestStmt(d, c, e, post), post>>)
            => LET v == Eval(e, envOf, before.heap, before.nalloc)
               IN  /\ pc = "returned"
                   /\ result = v.obj
                   /\ heap = v.heap

\* C3 witness: return 1 at the greatest depth, each if followed by
\* let x = 2, has made the Program yield 1 and left x as it was; and a block
\* has yielded the ReturnValue of its if statement
C3_Witness ==
    \/ /\ Called /\ pc = "returned"
       /\ node = Program(<<NestStmt(MaxDepth, mkBool(TRUE), mkInt(1),
                                    mkLet(NameX, mkInt(2))),
                           mkLet(NameX, mkInt(2))>>)
       /\ result = Integer(1)
       /\ heap = before.heap
       /\ Eval(mkLet(NameX, mkInt(2)), envOf, heap, nalloc).heap # heap
    \/ /\ Called /\ pc = "returned"
       /\ node = mkBlock(<<NestStmt(MaxDepth, mkBool(TRUE), mkInt(1),
                                    mkReturn(mkInt(0))),
                           mkReturn(mkInt(0))>>)
       /\ result.type = "RETURN_VALUE"
       /\ result.Inner = Integer(1)

\* C4: the value Eval returns for a Program is never a ReturnValue, and no
\* ReturnValue a block yields has a ReturnValue or an Error as its inner
\* value, also when the operand of return is an if expression whose block
\* executes a return.
C4_NoCarrierEscapesOrNests ==
    /\ (Called /\ pc = "returned" /\ node.kind = "Program")
        => result.type # "RETURN_VALUE"
    /\ (Called /\ pc = "returned" /\ node.kind = "BlockStatement"
            /\ result.type = "RETURN_VALUE")
        => ~IsCarrier(result.Inner)

\* C5: l / 0 on two Integers yields an Error value: the evaluation does not
\* fail out-of-band.
C5_DivisionByZeroYieldsError ==
    (Called /\ node.kind = "Program") =>
        \A l \in {mkInt(0), mkInt(2)} :
            node = Program(<<mkExprStmt(mkInfix(l, TokSLASH, mkInt(0)))>>)
            => (pc = "returned" /\ isError(result))

\* the names bound to an Error in some environment of the heap h
BoundToError(h) ==
    {<<e, k>> \in UNION {{e} \X DOMAIN h[e].store : e \in 1..Len(h)} :
        isError(h[e].store[k])}

\* C7: a LetStatement whose value expression evaluates to an Error returns
\* that Error and leaves every environment as it was; and no name of any
\* environment is ever bound to an Error.
C7_LetPropagatesErrorWithoutBinding ==
    /\ (Called /\ node.kind = "LetStatement") =>
        LET val == Eval(node.ValueExpr, envOf, before.heap, before.nalloc)
        IN  (~val.panic /\ isError(val.obj)) =>
                /\ pc = "returned"
                /\ result = val.obj
                /\ heap = before.heap
    /\ mode = "eval" => BoundToError(heap) = {}

\* C7 witness: let x = 2 + true has returned the type mismatch, in an
\* environment that binds x, and in one that does not
C7_Witness ==
    /\ Called /\ pc = "returned"
    /\ node = mkLet(NameX, mkInfix(mkInt(2), TokPLUS, mkBool(TRUE)))
    /\ isError(result)
    /\ \/ envOf = 1 /\ NameX \in DOMAIN heap[1].store
       \/ envOf = 2 /\ NameX \notin DOMAIN heap[2].store

(***************************************************************************)
(* Properties of the environment.  After EnvSet, envOf is the receiver,    *)
(* node.name the name, result the value, before the heap it found.         *)
(***************************************************************************)

\* the environments of the outer chain of e
RECURSIVE OuterChain(_, _)
OuterChain(h, e) ==
    IF h[e].outer = 0 THEN {}
    ELSE {h[e].outer} \cup OuterChain(h, h[e].outer)

\* C8: Set(name, v) on an environment changes only that environment's own
\* bindings, and of them only the one of name: every environment of its
\* outer chain is as it was, Get(name) on the receiver returns v, and
\* Get(name) on each outer environment returns what it returned before.
C8_SetWritesOnlyLocalBindings ==
    (mode = "env" /\ pc = "set") =>
        /\ Len(heap) = Len(before.heap)
        /\ \A o \in OuterChain(before.heap, envOf) :
            /\ heap[o] = before.heap[o]
            /\ Get(heap, o, node.name) = Get(before.heap, o, node.name)
        /\ \A o \in 1..Len(heap) : o # envOf => heap[o] = before.heap[o]
        /\ heap[envOf].outer = before.heap[envOf].outer
        /\ \A k \in DOMAIN before.heap[envOf].store :
            k # node.name => /\ k \in DOMAIN heap[envOf].store
                             /\ heap[envOf].store[k] = before.heap[envOf].store[k]
        /\ Get(heap, envOf, node.name) = [obj |-> result, ok |-> TRUE]

\* C8 witness: Set on an enclosed environment has shadowed a binding of its
\* outer environment with another value
C8_Witness ==
    /\ mode = "env" /\ pc = "set"
    /\ heap[envOf].outer # 0
    /\ Get(heap, heap[envOf].outer, node.name).ok
    /\ Get(heap, heap[envOf].outer, node.name).obj # result
    /\ Get(heap, envOf, node.name).obj = result

(***************************************************************************)
(* Properties of the parser's diagnostics                                  *)
(***************************************************************************)

IsPrefix(s, t) == Len(s) <= Len(t) /\ SubSeq(t, 1, Len(s)) = s

ExpectedDiagnostic(k, got) ==
    <<"expected next token to be %s, got %s instead", k, got>>

\* a let statement is about to be parsed and lacks its name or its "="
LetLacksToken ==
    /\ mode = "repl" /\ pc = "ParseProgram" /\ currTokenIs(p, "LET")
    /\ \/ ~peekTokenIs(p, "IDENT")
       \/ ~peekTokenIs(nextToken(p), "ASSIGN")

\* what parsing it leaves: one diagnostic more, naming the token kind
\* expected and the kind found; no statement more; the parser at the
\* statement loop, on the very token that was found
LetAbandoned ==
    /\ pc' = "ParseProgram"
    /\ program' = program
    /\ IF ~peekTokenIs(p, "IDENT")
           THEN /\ p'.errors = Append(p.errors,
                        ExpectedDiagnostic("IDENT", p.peekToken.Type))
                /\ p'.currToken = p.peekToken
           ELSE /\ p'.errors = Append(p.errors,
                        ExpectedDiagnostic("ASSIGN", nextToken(p).peekToken.Type))
                /\ p'.currToken = nextToken(p).peekToken

\* C11: a let statement that lacks an expected token adds exactly one
\* diagnostic "expected next token to be K, got K' instead", expectPeek
\* consumes no token, the statement is left out of the program and
\* ParseProgram goes on with the statement loop; and every step on a line
\* (nops counts the lines done) only appends to the diagnostics of its
\* parser and only moves forward in the input.
C11_MissingTokenInLet ==
    [][ /\ LetLacksToken => LetAbandoned
        /\ (mode = "repl" /\ nops' = nops) =>
                /\ IsPrefix(p.errors, p'.errors)
                /\ p'.l.position >= p.l.position ]_vars

\* C11 witness: let x = 5; let x 5; x; is parsed: the second let has left
\* one diagnostic and no statement, and the statements after it are parsed
C11_Witness ==
    /\ mode = "repl" /\ pc = "parsed"
    /\ p.l.input = InLetBadLetX
    /\ p.errors = <<ExpectedDiagnostic("ASSIGN", "INT")>>
    /\ Len(program) = 3
    /\ program[1].kind = "LetStatement"
    /\ program[2] = ExpressionStatement(TokenOf(LxFive), ExprOf(LxFive))
    /\ program[3] = ExpressionStatement(TokenOf(LxX), ExprOf(LxX))

(***************************************************************************)
(* Properties of the operators                                             *)
(***************************************************************************)

\* the two values are one and the same object: TRUE, FALSE and NULL are
\* shared, a ReturnValue is itself only
Identical(l, r) ==
    /\ l.type = r.type
    /\ CASE l.type = "BOOLEAN" -> l.Bool = r.Bool
         [] l.type = "NULL" -> TRUE
         [] l.type = "RETURN_VALUE" -> l.addr = r.addr
         [] OTHER -> FALSE

OperatorError(kind, l, op, r) ==
    [type |-> "ERROR", Message |-> <<kind, l.type, op, r.type>>]

\* the value of l op r by the rules of the language, for two values that
\* are not both Integer
MixedInfixValue(l, op, r) ==
    IF op = TokEQ THEN (IF Identical(l, r) THEN TRUEObj ELSE FALSEObj)
    ELSE IF op = TokNOT_EQ THEN (IF Identical(l, r) THEN FALSEObj ELSE TRUEObj)
    ELSE IF l.type # r.type
        THEN OperatorError("type mismatch: %s %s %s", l, op, r)
    ELSE OperatorError("unknown operator: %s %s %s", l, op, r)

\* C12: for an infix expression whose operands evaluate to non-Error
\* values not both Integer, == and != yield the shared TRUE or FALSE by
\* the identity of the two values, any other operator yields the Error
\* "type mismatch" when the types differ and "unknown operator" when they do
\* not; on two Integers == and != compare the numeric values.
C12_InfixOnMixedOperands ==
    (Called /\ node.kind = "Program") =>
        \A a \in InfixOperands, b \in InfixOperands, op \in InfixOperators :
            node = Program(<<mkExprStmt(mkInfix(a, op, b))>>) =>
                LET l == Eval(a, envOf, before.heap, before.nalloc)
                    r == Eval(b, envOf, l.heap, l.nalloc)
                IN  (~l.panic /\ ~r.panic /\ ~isError(l.obj) /\ ~isError(r.obj))
                    => IF l.obj.type = "INTEGER" /\ r.obj.type = "INTEGER"
                        THEN op \in {TokEQ, TokNOT_EQ} =>
                                /\ pc = "returned"
                                /\ result = IF (l.obj.Value = r.obj.Value)
                                                    = (op = TokEQ)
                                               THEN TRUEObj ELSE FALSEObj
                        ELSE /\ pc = "returned"
                             /\ result = MixedInfixValue(l.obj, op, r.obj)

\* C12 witness: 2 == true has yielded FALSE; two ReturnValues of equal
\* content, being two objects, have compared different; true + true has
\* yielded the Error of an unknown operator
C12_Witness ==
    /\ Called /\ pc = "returned"
    /\ \/ /\ node = Program(<<mkExprStmt(mkInfix(mkInt(2), TokEQ, mkBool(TRUE)))>>)
          /\ result = FALSEObj
       \/ /\ \E e \in IfExprs :
                node = Program(<<mkExprStmt(mkInfix(e, TokNOT_EQ, e))>>)
          /\ result = TRUEObj
       \/ /\ node = Program(<<mkExprStmt(mkInfix(mkBool(TRUE), TokPLUS,
                                                 mkBool(TRUE)))>>)
          /\ result = OperatorError("unknown operator: %s %s %s", TRUEObj,
                                    TokPLUS, TRUEObj)

(***************************************************************************)
(* Properties of the REPL session                                          *)
(***************************************************************************)

\* C13: every line of a session is evaluated against one session-long
\* Environment: a name bound by a let of the line before is found, with
\* its binding, by the line x; and a line with parse diagnostics is not
\* evaluated and leaves the Environment as the line before left it.
C13_SessionLongEnvironment ==
    (mode = "repl" /\ nops > 0) =>
        /\ (pc \in {"evaluated", "panicked"}
                /\ p.l.input = Cat(<<LxX, LxSemi>>)
                /\ LxX \in DOMAIN before.heap[1].store)
            => /\ pc = "evaluated"
               /\ evaluated = before.heap[1].store[LxX]
        /\ pc = "printed" => (evaluated = NilObj /\ heap = before.heap)

\* the truthiness rule of the language: every value is truthy but FALSE,
\* Null and the Integer 0
Truthy(v) == ~(v = FALSEObj \/ v = NULL \/ v = Integer(0))

\* if (a) { false } else { true }
IfNegation(a) ==
    mkIf(a, mkBlock(<<mkExprStmt(mkBool(FALSE))>>),
            mkBlock(<<mkExprStmt(mkBool(TRUE))>>))

\* C14: for every operand a whose value v is not an Error, !a yields TRUE
\* exactly when v is not truthy and FALSE exactly when it is, and so agrees
\* with if (a) { false } else { true }.
C14_BangNegatesTruthiness ==
    (Called /\ node.kind = "Program") =>
        \A a \in Atoms :
            node = Program(<<mkExprStmt(mkPrefix(TokBANG, a))>>) =>
                LET v == Eval(a, envOf, before.heap, before.nalloc)
                IN  (~v.panic /\ ~isError(v.obj)) =>
                        /\ pc = "returned"
                        /\ result = IF Truthy(v.obj) THEN FALSEObj ELSE TRUEObj
                        /\ result = Eval(IfNegation(a), envOf, before.heap,
                                         before.nalloc).obj

(***************************************************************************)
(* Properties of the integer literals                                      *)
(***************************************************************************)

\* the decimal value of a run of digits
RECURSIVE DecimalValue(_)
DecimalValue(ds) ==
    IF ds = <<>> THEN 0
    ELSE DecimalValue(SubSeq(ds, 1, Len(ds) - 1)) * 10 + DigitValue(ds[Len(ds)])

\* C15: a run of decimal digits, leading zeros included, parses with no
\* diagnostic as the IntegerLiteral whose value is its decimal value.
C15_IntegerLiteralIsDecimal ==
    (mode = "repl" /\ pc = "parsed") =>
        \A ds \in DigitRuns :
            p.l.input = InInteger(ds) =>
                /\ p.errors = <<>>
                /\ program = <<ExpressionStatement(Token("INT", ds),
                        IntegerLiteral(Token("INT", ds), DecimalValue(ds)))>>

====
